---- MODULE Spec2Model ----
(***************************************************************************)
(* Model of docker_entrypoint/_libs/utility.py: the Result logging helpers *)
(* (log_result, log_error), the support message builder, the object        *)
(* property helpers and the exit-code converter.                           *)
(*                                                                         *)
(* A state is one call of one helper on a logger with a fresh stream:      *)
(* `call` is the call made, `ret` the Result it returned and `log` the     *)
(* lines the logger received during it.  `lookup` is the Result that       *)
(* DockerEnvironments.get_environments() yields in this process.           *)
(***************************************************************************)
EXTENDS Integers, Sequences, FiniteSets, TLC

VARIABLES lookup, call, ret, log

vars == <<lookup, call, ret, log>>

(* ------------------------------ bounds --------------------------------- *)

\* exit codes range over -MaxCode .. MaxCode
MaxCode == 2

\* an object carries at most MaxProps attributes
MaxProps == 2

(* --------------------------- Python values ----------------------------- *)

NoneV == [i |-> 0, s |-> "", t |-> "None"]

StrV(s) == [i |-> 0, s |-> s, t |-> "str"]

IntV(i) == [i |-> i, s |-> "", t |-> "int"]

\* str(v), as an f-string or the logging formatter renders a value
Str(v) ==
  CASE v.t = "None" -> "None"
    [] v.t = "str" -> v.s
    [] v.t = "int" -> ToString(v.i)

(* ------------------------- on_rails.Result ----------------------------- *)

NoDetail == [code |-> 0, kind |-> "None", message |-> "", more_data |-> <<>>, title |-> ""]

ValidationError(message, more_data) ==
  [code |-> 400, kind |-> "ValidationError", message |-> message,
   more_data |-> more_data, title |-> "One or more validation errors occurred"]

\* the detail def_result / try_func build from a raised exception
ExceptionError(message) ==
  [code |-> 500, kind |-> "ExceptionError", message |-> message,
   more_data |-> <<>>, title |-> "An exception occurred"]

FailResult(code) ==
  [code |-> code, kind |-> "FailResult", message |-> "", more_data |-> <<>>,
   title |-> "Operation failed with code " \o ToString(code) \o "."]

Ok(value) == [value |-> value, detail |-> NoDetail, success |-> TRUE]

Fail(detail) == [value |-> NoneV, detail |-> detail, success |-> FALSE]

\* the text of a failure detail inside repr(result)
ReprDetail(d) ==
  IF d.kind = "None" THEN ""
  ELSE "Detail:\nTitle: " \o d.title \o "\n"
       \o (IF d.message = "" THEN "" ELSE "Message: " \o d.message \o "\n")
       \o "Code: " \o ToString(d.code) \o "\n"

\* repr(fail_result)
Repr(r) ==
  "success: " \o (IF r.success THEN "True" ELSE "False") \o "\n"
  \o (IF r.value = NoneV THEN "" ELSE "Value: " \o Str(r.value) \o "\n")
  \o ReprDetail(r.detail)

(* Record constructors list their fields in the order in which the names   *)
(* first occur in this module.                                             *)

(* An outcome is what a call leaves behind: the Result it returned and the *)
(* lines it wrote to the logger, in order.                                 *)
Outcome(r, out) == [ret |-> r, out |-> out]

\* the text of the AttributeError raised by an attribute access on a non-Result / None
AttrError(tag, attr) ==
  (IF tag = "None" THEN "'NoneType'" ELSE "'str'") \o " object has no attribute '" \o attr \o "'"

\* logger.info(text), run by a combinator: a None return becomes Result.ok(),
\* an AttributeError on a None logger becomes a failure
LoggerInfo(logger, msg) ==
  IF logger = "None"
  THEN Outcome(Fail(ExceptionError(AttrError("None", "info"))), <<>>)
  ELSE Outcome(Ok(NoneV), <<[level |-> "INFO", text |-> msg]>>)

\* Result.on_success(func): a failure passes through, otherwise func's Result
on_success(prev, func) ==
  IF ~prev.ret.success THEN prev
  ELSE Outcome(func.ret, prev.out \o func.out)

\* Result.on_success_operate_when(condition, func): func runs on a success that
\* meets the condition; its Result is kept only when it failed
on_success_operate_when(prev, condition, func) ==
  IF ~prev.ret.success \/ ~condition THEN prev
  ELSE IF ~func.ret.success THEN Outcome(func.ret, prev.out \o func.out)
  ELSE Outcome(prev.ret, prev.out \o func.out)

\* Result.on_fail(func): a success passes through, otherwise func's Result
on_fail(prev, func) ==
  IF prev.ret.success THEN prev
  ELSE Outcome(func.ret, prev.out \o func.out)

(* ----------------------- environment and support ------------------------ *)

Unset == "<unset>"

EnvNames == {"maintainer", "docker_version", "build_date", "vcs_url", "bug_report"}

EnvDefault(name) == IF name = "docker_version" THEN "latest" ELSE "No Data!"

\* DockerEnvironments.get_environments(): every field read with its default
get_environments(environ) ==
  Ok([n \in EnvNames |-> IF environ[n] = Unset THEN EnvDefault(n) ELSE environ[n]])

\* faulty variant: the Repository line printed before the Build Date line
_get_support_message_reordered(environments) ==
  Outcome(Ok(StrV("Support:\n"
                  \o "\tMaintainer: " \o environments.maintainer \o "\n"
                  \o "\tDocker Version: " \o environments.docker_version \o "\n"
                  \o "\tRepository: " \o environments.vcs_url \o "\n"
                  \o "\tBuild Date: " \o environments.build_date \o "\n"
                  \o "\tReport Bug: " \o environments.bug_report \o "\n")), <<>>)

_get_support_message(environments) ==
  Outcome(Ok(StrV("Support:\n"
                  \o "\tMaintainer: " \o environments.maintainer \o "\n"
                  \o "\tDocker Version: " \o environments.docker_version \o "\n"
                  \o "\tBuild Date: " \o environments.build_date \o "\n"
                  \o "\tRepository: " \o environments.vcs_url \o "\n"
                  \o "\tReport Bug: " \o environments.bug_report \o "\n")), <<>>)

get_support_message(environments_result) ==
  on_success(Outcome(environments_result, <<>>),
             _get_support_message(environments_result.value))

(* --------------------------- call arguments ----------------------------- *)

\* the result argument: None, an object that is no Result, or a Result
NoneArg == [r |-> Ok(NoneV), tag |-> "None"]

OtherArg == [r |-> Ok(NoneV), tag |-> "Other"]

ResultArg(r) == [r |-> r, tag |-> "Result"]

(* ------------------------- log_result, log_error ------------------------ *)

\* faulty variant: the condition tests truthiness (lambda value: value)
IsTruthy(value) == value \notin {NoneV, StrV(""), IntV(0)}

\* lambda value: value is not None
IsNotNone(value) == value # NoneV

\* faulty variant: returns after the error line, without the support message
log_error_without_support(logger, fail_result, environments_result) ==
  IF fail_result.tag # "Result"
  THEN Outcome(Fail(ExceptionError(AttrError(fail_result.tag, "success"))), <<>>)
  ELSE IF fail_result.r.success
  THEN Outcome(Fail(ValidationError("Expected failure result but got success result!",
                                    <<fail_result.r>>)), <<>>)
  ELSE IF logger = "None"
  THEN Outcome(Fail(ExceptionError(AttrError("None", "error"))), <<>>)
  ELSE Outcome(Ok(NoneV),
               <<[level |-> "ERROR",
                  text |-> "An error occurred:\n" \o Repr(fail_result.r) \o "\n"]>>)

\* faulty variant: the check that the Result is a failure is missing
log_error_unchecked(logger, fail_result, environments_result) ==
  IF fail_result.tag # "Result"
  THEN Outcome(Fail(ExceptionError(AttrError(fail_result.tag, "success"))), <<>>)
  ELSE IF logger = "None"
  THEN Outcome(Fail(ExceptionError(AttrError("None", "error"))), <<>>)
  ELSE LET error_line == [level |-> "ERROR",
                          text |-> "An error occurred:\n" \o Repr(fail_result.r) \o "\n"]
           support == get_support_message(environments_result)
       IN  on_success(Outcome(support.ret, <<error_line>>),
                      LoggerInfo(logger,
                                 "Please report this error to help others who use this program.\n"
                                 \o Str(support.ret.value)))

log_error(logger, fail_result, environments_result) ==
  IF fail_result.tag # "Result"
  THEN Outcome(Fail(ExceptionError(AttrError(fail_result.tag, "success"))), <<>>)
  ELSE IF fail_result.r.success
  THEN Outcome(Fail(ValidationError("Expected failure result but got success result!",
                                    <<fail_result.r>>)), <<>>)
  ELSE IF logger = "None"
  THEN Outcome(Fail(ExceptionError(AttrError("None", "error"))), <<>>)
  ELSE LET error_line == [level |-> "ERROR",
                          text |-> "An error occurred:\n" \o Repr(fail_result.r) \o "\n"]
           support == get_support_message(environments_result)
       IN  on_success(Outcome(support.ret, <<error_line>>),
                      LoggerInfo(logger,
                                 "Please report this error to help others who use this program.\n"
                                 \o Str(support.ret.value)))

\* faulty variant: the failure branch (.on_fail) is missing
log_result_without_on_fail(logger, result, environments_result) ==
  IF result.tag # "Result"
  THEN Outcome(Fail(ExceptionError(AttrError(result.tag, "on_success_operate_when"))), <<>>)
  ELSE on_success_operate_when(Outcome(result.r, <<>>),
                               IsNotNone(result.r.value),
                               LoggerInfo(logger, Str(result.r.value)))

log_result(logger, result, environments_result) ==
  IF result.tag # "Result"
  THEN Outcome(Fail(ExceptionError(AttrError(result.tag, "on_success_operate_when"))), <<>>)
  ELSE LET logged == on_success_operate_when(Outcome(result.r, <<>>),
                                             IsNotNone(result.r.value),
                                             LoggerInfo(logger, Str(result.r.value)))
       IN  on_fail(logged, log_error(logger, ResultArg(logged.ret), environments_result))

(* ------------------------ convert_code_to_result ------------------------ *)

\* faulty variant: only positive codes fail
convert_code_to_result_positive(code) ==
  IF code <= 0 THEN Outcome(Ok(NoneV), <<>>)
  ELSE Outcome(Fail(FailResult(code)), <<>>)

convert_code_to_result(code) ==
  IF code = 0 THEN Outcome(Ok(NoneV), <<>>)
  ELSE Outcome(Fail(FailResult(code)), <<>>)

(* ------------------------ object property helpers ----------------------- *)

\* an attribute of an object; public: its name does not begin with an underscore
Attr(name, value, public) == [value |-> value, name |-> name, public |-> public]

NoneObject == [tag |-> "None", attrs |-> <<>>]

Object(attrs) == [tag |-> "object", attrs |-> attrs]

\* the title / message argument: None, a str (its characters) or a list
NoTitle == [tag |-> "None", chars |-> <<>>]

StrTitle(chars) == [tag |-> "str", chars |-> chars]

ListTitle == [tag |-> "list", chars |-> <<>>]

Whitespace == {" ", "\t", "\n"}

RECURSIVE JoinChars(_)
JoinChars(chars) ==
  IF chars = <<>> THEN "" ELSE Head(chars) \o JoinChars(Tail(chars))

\* str.strip() leaves nothing
IsBlank(chars) == \A k \in 1..Len(chars) : chars[k] \in Whitespace

\* f"{message}" of the message argument
TitleText(title) ==
  CASE title.tag = "None" -> "None"
    [] title.tag = "str" -> JoinChars(title.chars)
    [] title.tag = "list" -> "['not string']"

\* bool(message): None and the empty string are falsy, a one-element list is truthy
TitleTruthy(title) ==
  \/ title.tag = "list"
  \/ title.tag = "str" /\ title.chars # <<>>

RECURSIVE PropertyLines(_, _, _)
PropertyLines(attrs, indent, public_only) ==
  IF attrs = <<>> THEN ""
  ELSE LET a == Head(attrs)
       IN  (IF public_only /\ ~a.public THEN ""
            ELSE indent \o a.name \o ": " \o Str(a.value) \o "\n")
           \o PropertyLines(Tail(attrs), indent, public_only)

\* faulty variant: any non-empty title counts, and every line is indented
class_properties_to_str_always_indent(class_object, title) ==
  IF class_object.tag = "None"
  THEN Outcome(Fail(ValidationError("The class object is required.", <<>>)), <<>>)
  ELSE IF title.tag \notin {"None", "str"}
  THEN Outcome(Fail(ValidationError("The message must be a string.", <<>>)), <<>>)
  ELSE Outcome(Ok(StrV((IF TitleTruthy(title) THEN JoinChars(title.chars) \o ":\n" ELSE "")
                       \o PropertyLines(class_object.attrs, "\t", TRUE))), <<>>)

\* faulty variant: the type of the title is not checked
class_properties_to_str_any_title(class_object, title) ==
  IF class_object.tag = "None"
  THEN Outcome(Fail(ValidationError("The class object is required.", <<>>)), <<>>)
  ELSE LET titled == TitleTruthy(title) /\ ~IsBlank(title.chars)
       IN  Outcome(Ok(StrV((IF titled THEN TitleText(title) \o ":\n" ELSE "")
                           \o PropertyLines(class_object.attrs,
                                            IF titled THEN "\t" ELSE "", TRUE))), <<>>)

\* class_properties_to_str(class_object, title): the formatter the tests call
class_properties_to_str(class_object, title) ==
  IF class_object.tag = "None"
  THEN Outcome(Fail(ValidationError("The class object is required.", <<>>)), <<>>)
  ELSE IF title.tag \notin {"None", "str"}
  THEN Outcome(Fail(ValidationError("The message must be a string.", <<>>)), <<>>)
  ELSE LET titled == title.tag = "str" /\ ~IsBlank(title.chars)
       IN  Outcome(Ok(StrV((IF titled THEN JoinChars(title.chars) \o ":\n" ELSE "")
                           \o PropertyLines(class_object.attrs,
                                            IF titled THEN "\t" ELSE "", TRUE))), <<>>)

\* log_class_properties(logger, log_level, class_object, message)
log_class_properties(logger, log_level, class_object, message) ==
  IF class_object.tag = "None"
  THEN Outcome(Fail(ExceptionError("vars() argument must have __dict__ attribute")), <<>>)
  ELSE IF logger = "None"
  THEN Outcome(Fail(ExceptionError(AttrError("None", "log"))), <<>>)
  ELSE Outcome(Ok(NoneV),
               <<[level |-> log_level,
                  text |-> (IF TitleTruthy(message) THEN TitleText(message) \o ":\n" ELSE "")
                           \o PropertyLines(class_object.attrs, "\t", FALSE)]>>)

(* ------------------------------- inputs --------------------------------- *)

Loggers == {"None", "Logger"}

Levels == {"INFO", "ERROR"}

Codes == (0 - MaxCode) .. MaxCode

Results ==
  {Ok(NoneV), Ok(StrV("value")), Ok(StrV("")), Ok(IntV(0)), Ok(IntV(7))}
  \cup {Fail(FailResult(c)) : c \in Codes \ {0}}
  \cup {Fail(ValidationError("", <<>>)), Fail(ExceptionError("boom")), Fail(NoDetail)}

Args == {NoneArg, OtherArg} \cup {ResultArg(r) : r \in Results}

Environs == [EnvNames -> {Unset, "x", "y"}]

Attrs ==
  {Attr("prop1", StrV("prop1"), TRUE), Attr("prop2", StrV("prop2"), TRUE),
   Attr("count", IntV(3), TRUE), Attr("_secret", StrV("s"), FALSE)}

\* objects: up to MaxProps attributes with distinct names, in insertion order
Objects ==
  {NoneObject} \cup
  {Object(q) : q \in {u \in UNION {[1..n -> Attrs] : n \in 0..MaxProps} :
                        \A i, j \in DOMAIN u : i # j => u[i].name # u[j].name}}

Titles ==
  {NoTitle, ListTitle, StrTitle(<<>>), StrTitle(<<" ", "\t">>),
   StrTitle(<<"m", "s", "g">>), StrTitle(<<" ", "m">>)}

(* ------------------------------- machine -------------------------------- *)

Call(op, logger, arg, code, object, title, level) ==
  [code |-> code, title |-> title, logger |-> logger, level |-> level,
   op |-> op, arg |-> arg, object |-> object]

NoCall == Call("start", "None", NoneArg, 0, NoneObject, NoTitle, "INFO")

\* nothing called yet on this logger: its stream is empty
Started ==
  /\ call.op = "start"
  /\ ret = Ok(NoneV)
  /\ log = <<>>

\* one call on the fresh logger: what it returned and what the stream holds
Returned(c, outcome) ==
  /\ call' = c
  /\ ret' = outcome.ret
  /\ log' = outcome.out
  /\ UNCHANGED lookup

\* get_logger(): the next call gets a logger with a fresh stream
FreshLogger ==
  /\ ~Started
  /\ call' = NoCall
  /\ ret' = Ok(NoneV)
  /\ log' = <<>>
  /\ UNCHANGED lookup

\* the first logger, nothing called on it
Fresh ==
  /\ call = NoCall
  /\ ret = Ok(NoneV)
  /\ log = <<>>

Init ==
  /\ lookup \in {get_environments(e) : e \in Environs}
  /\ Fresh

CallLogResult ==
  \E lg \in Loggers, a \in Args :
    /\ Started
    /\ Returned(Call("log_result", lg, a, 0, NoneObject, NoTitle, "INFO"),
                log_result(lg, a, lookup))

CallLogError ==
  \E lg \in Loggers, a \in Args :
    /\ Started
    /\ Returned(Call("log_error", lg, a, 0, NoneObject, NoTitle, "INFO"),
                log_error(lg, a, lookup))

CallGetSupportMessage ==
  /\ Started
  /\ Returned(Call("get_support_message", "None", NoneArg, 0, NoneObject, NoTitle, "INFO"),
              get_support_message(lookup))

CallClassPropertiesToStr ==
  \E o \in Objects, t \in Titles :
    /\ Started
    /\ Returned(Call("class_properties_to_str", "None", NoneArg, 0, o, t, "INFO"),
                class_properties_to_str(o, t))

CallLogClassProperties ==
  \E lg \in Loggers, lv \in Levels, o \in Objects, t \in Titles :
    /\ Started
    /\ Returned(Call("log_class_properties", lg, NoneArg, 0, o, t, lv),
                log_class_properties(lg, lv, o, t))

CallConvertCode ==
  \E c \in Codes :
    /\ Started
    /\ Returned(Call("convert_code_to_result", "None", NoneArg, c, NoneObject, NoTitle, "INFO"),
                convert_code_to_result(c))

Next ==
  \/ CallLogResult
  \/ CallLogError
  \/ CallGetSupportMessage
  \/ CallClassPropertiesToStr
  \/ CallLogClassProperties
  \/ CallConvertCode
  \/ FreshLogger

Spec == Init /\ [][Next]_vars

(* The support message builder alone, over every outcome of the environment *)
(* lookup, a failed one included.                                           *)
LookupFailures == {Fail(ExceptionError("environment lookup failed")), Fail(NoDetail)}

InitLookup ==
  /\ lookup \in {get_environments(e) : e \in Environs} \cup LookupFailures
  /\ Fresh

NextLookup == CallGetSupportMessage \/ FreshLogger

SpecLookup == InitLookup /\ [][NextLookup]_vars

(* ------------------------------ properties ------------------------------ *)

ValidLogger == call.logger = "Logger"

IsValidationError(r, message) ==
  /\ ~r.success
  /\ r.detail.kind = "ValidationError"
  /\ r.detail.code = 400
  /\ r.detail.message = message

InfoLine(text) == [level |-> "INFO", text |-> text]

ErrorLine(text) == [level |-> "ERROR", text |-> text]

RECURSIVE JoinLines(_)
JoinLines(lines) ==
  IF lines = <<>> THEN "" ELSE Head(lines) \o "\n" \o JoinLines(Tail(lines))

\* C1: log_result and log_error answer an absent logger, or an absent or
\* non-Result result, with a returned ValidationError (code 400) carrying the
\* documented message, and log nothing.
C1_InvalidArgumentsGiveValidationError ==
  (/\ call.op \in {"log_result", "log_error"}
   /\ (call.logger = "None" \/ call.arg.tag # "Result"))
  => /\ IsValidationError(ret,
          IF call.logger = "None" THEN "The logger is required."
          ELSE "The result parameter is required and must be an instance of Result.")
     /\ log = <<>>

\* C2: with a valid logger, log_result returns the Result it was given, unchanged,
\* whether that Result is a success or a failure.
C2_LogResultReturnsItsArgument ==
  (call.op = "log_result" /\ ValidLogger /\ call.arg.tag = "Result")
  => ret = call.arg.r

\* C3: log_result on a successful Result with a valid logger logs nothing when the
\* value is None, and otherwise exactly one info line equal to the value (falsy
\* values such as 0 and "" included) and no error line.
C3_SuccessValueLoggedOnce ==
  (call.op = "log_result" /\ ValidLogger /\ call.arg.tag = "Result" /\ call.arg.r.success)
  => IF call.arg.r.value = NoneV
     THEN log = <<>>
     ELSE log = <<InfoLine(Str(call.arg.r.value))>>

C3_Witness ==
  /\ call.op = "log_result"
  /\ ValidLogger
  /\ call.arg = ResultArg(Ok(IntV(0)))
  /\ log = <<InfoLine("0")>>

C5_LogErrorTwoLinesThenSuccess ==
  (call.op = "log_error" /\ ValidLogger /\ call.arg.tag = "Result" /\ ~call.arg.r.success)
  => /\ log = <<ErrorLine("An error occurred:\n" \o Repr(call.arg.r) \o "\n"),
                InfoLine("Please report this error to help others who use this program.\n"
                         \o get_support_message(lookup).ret.value.s)>>
     /\ ret.success

C5_Witness ==
  /\ call.op = "log_error"
  /\ ValidLogger
  /\ call.arg = ResultArg(Fail(ValidationError("", <<>>)))
  /\ Len(log) = 2
  /\ log[2].level = "INFO"
  /\ ret.success

\* C6: log_error on a successful Result r with a valid logger returns a failure
\* whose detail is the ValidationError "Expected failure result but got success
\* result!" (code 400) with r as its supporting data, and logs nothing.
C6_LogErrorRejectsSuccess ==
  (call.op = "log_error" /\ ValidLogger /\ call.arg.tag = "Result" /\ call.arg.r.success)
  => /\ IsValidationError(ret, "Expected failure result but got success result!")
     /\ ret.detail.more_data = <<call.arg.r>>
     /\ log = <<>>

C6_Witness ==
  /\ call.op = "log_error"
  /\ ValidLogger
  /\ call.arg = ResultArg(Ok(StrV("value")))
  /\ ~ret.success
  /\ ret.detail.more_data = <<Ok(StrV("value"))>>

\* the public attributes of an object, in insertion order
PublicAttrs(object) == SelectSeq(object.attrs, LAMBDA a : a.public)

\* a title that is a string with a character that is no whitespace
NonBlankTitle(title) ==
  title.tag = "str" /\ \E k \in 1..Len(title.chars) : title.chars[k] \notin Whitespace

\* the lines of the formatted text: the title line, then one line per public attribute
FormattedLines(object, title) ==
  (IF NonBlankTitle(title) THEN <<JoinChars(title.chars) \o ":">> ELSE <<>>)
  \o [k \in 1..Len(PublicAttrs(object)) |->
        (IF NonBlankTitle(title) THEN "\t" ELSE "")
        \o PublicAttrs(object)[k].name \o ": " \o Str(PublicAttrs(object)[k].value)]

C9_SupportMessage ==
  (call.op = "get_support_message")
  => /\ log = <<>>
     /\ ~lookup.success => ret = lookup
     /\ lookup.success =>
          ret = Ok(StrV(JoinLines(<<"Support:",
                                    "\tMaintainer: " \o lookup.value.maintainer,
                                    "\tDocker Version: " \o lookup.value.docker_version,
                                    "\tBuild Date: " \o lookup.value.build_date,
                                    "\tRepository: " \o lookup.value.vcs_url,
                                    "\tReport Bug: " \o lookup.value.bug_report>>)))
     /\ lookup = get_environments([n \in EnvNames |-> Unset]) =>
          ret.value.s = "Support:\n\tMaintainer: No Data!\n\tDocker Version: latest\n"
                        \o "\tBuild Date: No Data!\n\tRepository: No Data!\n"
                        \o "\tReport Bug: No Data!\n"

C9_Witness ==
  /\ call.op = "get_support_message"
  /\ lookup = get_environments([n \in EnvNames |-> Unset])
  /\ ret.success
  /\ ret.value.s = "Support:\n\tMaintainer: No Data!\n\tDocker Version: latest\n"
                   \o "\tBuild Date: No Data!\n\tRepository: No Data!\n"
                   \o "\tReport Bug: No Data!\n"

\* C10: convert_code_to_result returns a success without a value exactly for code
\* 0, and for every other integer, negative ones included, a failure whose detail
\* is a FailResult carrying that code; never a validation error.
C10_CodeToResult ==
  (call.op = "convert_code_to_result")
  => /\ ret.success <=> call.code = 0
     /\ ret.success => ret = Ok(NoneV)
     /\ ~ret.success => ret.detail.kind = "FailResult" /\ ret.detail.code = call.code
     /\ ret.detail.kind # "ValidationError"

C10_Witness ==
  /\ call.op = "convert_code_to_result"
  /\ call.code < 0
  /\ ~ret.success
  /\ ret.detail.kind = "FailResult"
  /\ ret.detail.code = call.code

====
